---- MODULE Spec2Model ----
(***************************************************************************)
(* Model of package httphelper, file value-from-form.go: ScanFormData,     *)
(* the ScanError constructors and ScanError.Error.                         *)
(*                                                                         *)
(* Strings are sequences of one-character strings.  Integers are kept in   *)
(* sign/magnitude form with the magnitude a sequence of decimal digits     *)
(* (most significant first, no leading zero), so that the 64-bit ranges    *)
(* are exact.  The integer parsers called by ScanFormData                  *)
(* of package strconvhelper are base-10 wrappers of Go's                    *)
(* strconv.ParseInt / strconv.ParseUint and are modelled as such.          *)
(***************************************************************************)
EXTENDS Integers, Sequences, FiniteSets, TLC

VARIABLES intSize, form, fields, dest, i, stringValue, pc, err,
          fmtPc, fmtDepth, fmtText

vars == <<intSize, form, fields, dest, i, stringValue, pc, err,
          fmtPc, fmtDepth, fmtText>>

(***************************************************************************)
(* Bounds                                                                  *)
(***************************************************************************)
MaxFields == 2
MaxVals == 2
MaxStack == 3

(***************************************************************************)
(* ScanErrorType                                                           *)
(***************************************************************************)
ScanErrorTypeNoSuchField == 0
ScanErrorTypeMultipleValues == 1
ScanErrorTypeIncompatibleValue == 2
ScanErrorTypeIncompatibleType == 3

(* ScanError; IsNil marks the nil error returned on success.              *)
NilError ==
  [IsNil |-> TRUE, FieldNum |-> 0, FieldName |-> "", Type |-> 0, SubError |-> "nil"]

ScanError(fieldNum, fieldName, type, subError) ==
  [IsNil |-> FALSE, FieldNum |-> fieldNum, FieldName |-> fieldName,
   Type |-> type, SubError |-> subError]

scanErrorNoSuchField(fieldNum, fieldName) ==
  ScanError(fieldNum, fieldName, ScanErrorTypeNoSuchField, "nil")

scanErrorMultipleValues(fieldNum, fieldName) ==
  ScanError(fieldNum, fieldName, ScanErrorTypeMultipleValues, "nil")

scanErrorIncompatibleValue(fieldNum, fieldName, subError) ==
  ScanError(fieldNum, fieldName, ScanErrorTypeIncompatibleValue, subError)

scanErrorIncompatibleType(fieldNum, fieldName) ==
  ScanError(fieldNum, fieldName, ScanErrorTypeIncompatibleValue, "nil")

(***************************************************************************)
(* Destination types (the cases of the type switch) and values             *)
(***************************************************************************)
SignedTypes == {"*int", "*int8", "*int16", "*int32", "*int64"}
UnsignedTypes == {"*uint", "*uint8", "*uint16", "*uint32", "*uint64"}
IntegerTypes == SignedTypes \cup UnsignedTypes
SupportedTypes == IntegerTypes \cup {"*bool", "*string"}
UnsupportedTypes == {"*float64"}
AllTypes == SupportedTypes \cup UnsupportedTypes

IntSizes == {32, 64}

BitSize(t, isz) ==
  CASE t \in {"*int8", "*uint8"} -> 8
    [] t \in {"*int16", "*uint16"} -> 16
    [] t \in {"*int32", "*uint32"} -> 32
    [] t \in {"*int64", "*uint64"} -> 64
    [] OTHER -> isz

IntV(neg, mag) == [k |-> "int", neg |-> neg, mag |-> mag, b |-> FALSE, s |-> <<>>]
BoolV(b) == [k |-> "bool", neg |-> FALSE, mag |-> <<>>, b |-> b, s |-> <<>>]
StringV(s) == [k |-> "string", neg |-> FALSE, mag |-> <<>>, b |-> FALSE, s |-> s]
FloatV == [k |-> "float64", neg |-> FALSE, mag |-> <<>>, b |-> FALSE, s |-> <<>>]

(***************************************************************************)
(* Decimal magnitudes                                                      *)
(***************************************************************************)
Zero == <<0>>

MagLt(a, b) ==
  \/ Len(a) < Len(b)
  \/ /\ Len(a) = Len(b)
     /\ \E p \in 1..Len(a) :
          /\ a[p] < b[p]
          /\ \A q \in 1..(p - 1) : a[q] = b[q]

MagLe(a, b) == a = b \/ MagLt(a, b)

(* n*10 + d *)
MulAdd(n, d) == IF n = Zero THEN <<d>> ELSE Append(n, d)

RECURSIVE MagInc(_)
MagInc(a) ==
  IF a = <<>> THEN <<1>>
  ELSE IF a[Len(a)] < 9
       THEN [a EXCEPT ![Len(a)] = @ + 1]
       ELSE Append(MagInc(SubSeq(a, 1, Len(a) - 1)), 0)

RECURSIVE StripZeros(_)
StripZeros(a) ==
  IF Len(a) > 1 /\ a[1] = 0 THEN StripZeros(Tail(a)) ELSE a

RECURSIVE MagDecRaw(_)
MagDecRaw(a) ==
  IF a[Len(a)] > 0
  THEN [a EXCEPT ![Len(a)] = @ - 1]
  ELSE Append(MagDecRaw(SubSeq(a, 1, Len(a) - 1)), 9)

(* a - 1, for a >= 1 *)
MagDec(a) == StripZeros(MagDecRaw(a))

(* 1 << n for the shift counts the parsers use *)
Shl1(n) ==
  CASE n = 7 -> <<1, 2, 8>>
    [] n = 8 -> <<2, 5, 6>>
    [] n = 15 -> <<3, 2, 7, 6, 8>>
    [] n = 16 -> <<6, 5, 5, 3, 6>>
    [] n = 31 -> <<2, 1, 4, 7, 4, 8, 3, 6, 4, 8>>
    [] n = 32 -> <<4, 2, 9, 4, 9, 6, 7, 2, 9, 6>>
    [] n = 63 -> <<9, 2, 2, 3, 3, 7, 2, 0, 3, 6, 8, 5, 4, 7, 7, 5, 8, 0, 8>>
    [] n = 64 -> <<1, 8, 4, 4, 6, 7, 4, 4, 0, 7, 3, 7, 0, 9, 5, 5, 1, 6, 1, 6>>

(***************************************************************************)
(* strconv.ParseUint / strconv.ParseInt, base 10                           *)
(***************************************************************************)
DigitChars == <<"0", "1", "2", "3", "4", "5", "6", "7", "8", "9">>
IsDigit(c) == \E d \in 1..10 : DigitChars[d] = c
DigitVal(c) == (CHOOSE d \in 1..10 : DigitChars[d] = c) - 1

(* maxVal of ParseUint: 1<<bitSize - 1 *)
MaxVal(bitSize) == MagDec(Shl1(bitSize))

(* cutoff of ParseInt: 1 << (bitSize-1) *)
Cutoff(bitSize) == Shl1(bitSize - 1)

RECURSIVE ParseUintLoop(_, _, _, _)
ParseUintLoop(s, p, n, maxVal) ==
  IF p > Len(s) THEN [n |-> n, err |-> "nil"]
  ELSE IF ~IsDigit(s[p]) THEN [n |-> Zero, err |-> "syntax"]
  ELSE LET n1 == MulAdd(n, DigitVal(s[p]))
       IN IF MagLt(maxVal, n1)
          THEN [n |-> maxVal, err |-> "range"]
          ELSE ParseUintLoop(s, p + 1, n1, maxVal)

(* variant: the bit size is ignored, every width parses as 64 bits *)
ParseUintAlways64(s, bitSize) ==
  IF s = <<>> THEN [n |-> Zero, err |-> "syntax"]
  ELSE ParseUintLoop(s, 1, Zero, MaxVal(64))

ParseUint(s, bitSize) ==
  IF s = <<>> THEN [n |-> Zero, err |-> "syntax"]
  ELSE ParseUintLoop(s, 1, Zero, MaxVal(bitSize))

(* variant: the negative bound is compared with >= instead of > *)
ParseIntNegCutoff(s, bitSize) ==
  IF s = <<>> THEN [neg |-> FALSE, mag |-> Zero, err |-> "syntax"]
  ELSE LET neg == s[1] = "-"
           rest == IF s[1] = "+" \/ s[1] = "-" THEN Tail(s) ELSE s
           un == ParseUint(rest, bitSize)
           cutoff == Cutoff(bitSize)
       IN IF un.err = "syntax"
          THEN [neg |-> FALSE, mag |-> Zero, err |-> "syntax"]
          ELSE IF ~neg /\ MagLe(cutoff, un.n)
          THEN [neg |-> FALSE, mag |-> MagDec(cutoff), err |-> "range"]
          ELSE IF neg /\ MagLe(cutoff, un.n)
          THEN [neg |-> TRUE, mag |-> cutoff, err |-> "range"]
          ELSE [neg |-> neg /\ un.n # Zero, mag |-> un.n, err |-> "nil"]

(* result: [neg, mag, err] *)
ParseInt(s, bitSize) ==
  IF s = <<>> THEN [neg |-> FALSE, mag |-> Zero, err |-> "syntax"]
  ELSE LET neg == s[1] = "-"
           rest == IF s[1] = "+" \/ s[1] = "-" THEN Tail(s) ELSE s
           un == ParseUint(rest, bitSize)
           cutoff == Cutoff(bitSize)
       IN IF un.err = "syntax"
          THEN [neg |-> FALSE, mag |-> Zero, err |-> "syntax"]
          ELSE IF ~neg /\ MagLe(cutoff, un.n)
          THEN [neg |-> FALSE, mag |-> MagDec(cutoff), err |-> "range"]
          ELSE IF neg /\ MagLt(cutoff, un.n)
          THEN [neg |-> TRUE, mag |-> cutoff, err |-> "range"]
          ELSE [neg |-> neg /\ un.n # Zero, mag |-> un.n, err |-> "nil"]

(* strconv.FormatInt(v, 10) *)
FormatInt(neg, mag) ==
  (IF neg THEN <<"-">> ELSE <<>>) \o [p \in 1..Len(mag) |-> DigitChars[mag[p] + 1]]

(***************************************************************************)
(* The dispatch of ScanFormData on the destination's type                  *)
(***************************************************************************)
(* variant: a key with at least one value passes the lookup *)
LookupStatusAtLeastOne(frm, name) ==
  IF name \in DOMAIN frm /\ Len(frm[name]) >= 1 THEN "ok"
  ELSE IF name \notin DOMAIN frm THEN "nosuch"
  ELSE "multiple"

(* variant: the two failing branches exchanged *)
LookupStatusSwapped(frm, name) ==
  IF name \in DOMAIN frm /\ Len(frm[name]) = 1 THEN "ok"
  ELSE IF name \in DOMAIN frm THEN "nosuch"
  ELSE "multiple"

(* the existence test of the form lookup: "ok", "nosuch" or "multiple"     *)
LookupStatus(frm, name) ==
  IF name \in DOMAIN frm /\ Len(frm[name]) = 1 THEN "ok"
  ELSE IF name \notin DOMAIN frm THEN "nosuch"
  ELSE "multiple"

(* strconvhelper.Parse[U]int<N>(stringValue): [neg, mag, err] *)
ParseFor(t, s, isz) ==
  IF t \in SignedTypes
  THEN ParseInt(s, BitSize(t, isz))
  ELSE LET un == ParseUint(s, BitSize(t, isz))
       IN [neg |-> FALSE, mag |-> un.n, err |-> un.err]

(* What the parser hands back next to a non-nil error: strconv's value, or *)
(* zero if the wrapper discards it.  Either is assigned to *value.         *)
ErrorReturns(r) == {IntV(FALSE, Zero), IntV(r.neg, r.mag)}

(* variant: the capitalised literal *)
scanBoolTrueStringCapital == <<"O", "n">>

scanBoolTrueString == <<"o", "n">>
scanBoolFalseString == <<"o", "f", "f">>

(***************************************************************************)
(* Inputs                                                                  *)
(***************************************************************************)
Names == {"a", "b"}

SampleInts ==
  {[neg |-> FALSE, mag |-> Zero], [neg |-> TRUE, mag |-> <<1>>],
   [neg |-> FALSE, mag |-> <<7>>]}
  \cup UNION {
    {[neg |-> FALSE, mag |-> MagDec(Cutoff(b))],
     [neg |-> FALSE, mag |-> Cutoff(b)],
     [neg |-> TRUE, mag |-> Cutoff(b)],
     [neg |-> TRUE, mag |-> MagInc(Cutoff(b))],
     [neg |-> FALSE, mag |-> MaxVal(b)],
     [neg |-> FALSE, mag |-> Shl1(b)]} : b \in {8, 16, 32, 64}}

RawStrs ==
  {<<>>, <<"o", "n">>, <<"o", "f", "f">>, <<"O", "n">>, <<"O", "N">>,
   <<"1">>, <<"t", "r", "u", "e">>, <<"o", "n", " ">>, <<"+", "5">>,
   <<"0", "0", "7">>, <<"-", "0">>, <<"1", "_", "0">>, <<" ", "1">>,
   <<"x">>, <<"-">>, <<"+">>, <<"1", "2", "a">>}

Strs == RawStrs \cup {FormatInt(v.neg, v.mag) : v \in SampleInts}

SeqStrs == {<<"o", "n">>, <<"7">>}

SeqTypes == {"*int8", "*uint16", "*bool", "*string", "*float64"}

(* the value sequences of one key: one value, or none or several *)
ValueSeqs(strs) ==
  {<<s>> : s \in strs}
  \cup {[p \in 1..n |-> <<"1">>] : n \in (0..MaxVals) \ {1}}

PreValues(t) ==
  CASE t \in IntegerTypes -> {IntV(FALSE, <<5>>)}
    [] t = "*bool" -> {BoolV(TRUE), BoolV(FALSE)}
    [] t = "*string" -> {StringV(<<"p">>)}
    [] OTHER -> {FloatV}

Requests(types) ==
  UNION {{[Name |-> n, Value |-> t, Pre |-> v] : v \in PreValues(t)} :
           <<n, t>> \in Names \X types}

Forms(strsA, strsB) ==
  UNION {{f \in [D -> ValueSeqs(strsA \cup strsB)] :
            /\ "a" \in D => f["a"] \in ValueSeqs(strsA)
            /\ "b" \in D => f["b"] \in ValueSeqs(strsB)} : D \in SUBSET Names}

(***************************************************************************)
(* State machine                                                           *)
(***************************************************************************)
InitCommon ==
  /\ intSize \in IntSizes
  /\ dest = [j \in 1..Len(fields) |-> fields[j].Pre]
  /\ i = 1
  /\ stringValue = <<>>
  /\ pc = "loop"
  /\ err = NilError
  /\ fmtPc = "idle"
  /\ fmtDepth = 0
  /\ fmtText = <<>>

(* one request, any destination type, any of the value strings *)
InitOne ==
  /\ form \in Forms(Strs, SeqStrs)
  /\ fields \in [1..1 -> Requests(AllTypes)]
  /\ InitCommon

(* up to MaxFields requests *)
InitMany ==
  /\ form \in Forms(SeqStrs, SeqStrs)
  /\ fields \in UNION {[1..n -> Requests(SeqTypes)] : n \in 0..MaxFields}
  /\ InitCommon

Init == InitOne \/ InitMany

InLoop == pc = "loop" /\ i <= Len(fields)
field == fields[i]
Looked == LookupStatus(form, field.Name) = "ok"

Return(e) ==
  /\ err' = e
  /\ pc' = "done"
  /\ UNCHANGED i

Continue ==
  /\ i' = i + 1
  /\ UNCHANGED <<err, pc>>

Frame == UNCHANGED <<intSize, form, fields, fmtPc, fmtDepth, fmtText>>

ScanNoSuchField ==
  /\ InLoop
  /\ LookupStatus(form, field.Name) = "nosuch"
  /\ stringValue' = <<>>
  /\ Return(scanErrorNoSuchField(i - 1, field.Name))
  /\ UNCHANGED dest
  /\ Frame

(* variant: the error is recorded but the loop goes on *)
ScanMultipleValuesContinue ==
  /\ InLoop
  /\ LookupStatus(form, field.Name) = "multiple"
  /\ stringValue' = <<>>
  /\ err' = scanErrorMultipleValues(i - 1, field.Name)
  /\ i' = i + 1
  /\ UNCHANGED pc
  /\ UNCHANGED dest
  /\ Frame

ScanMultipleValues ==
  /\ InLoop
  /\ LookupStatus(form, field.Name) = "multiple"
  /\ stringValue' = <<>>
  /\ Return(scanErrorMultipleValues(i - 1, field.Name))
  /\ UNCHANGED dest
  /\ Frame

ScanInteger ==
  /\ InLoop
  /\ Looked
  /\ field.Value \in IntegerTypes
  /\ stringValue' = form[field.Name][1]
  /\ LET r == ParseFor(field.Value, form[field.Name][1], intSize)
     IN IF r.err = "nil"
        THEN /\ dest' = [dest EXCEPT ![i] = IntV(r.neg, r.mag)]
             /\ Continue
        ELSE /\ \E v \in ErrorReturns(r) : dest' = [dest EXCEPT ![i] = v]
             /\ Return(scanErrorIncompatibleValue(i - 1, field.Name, r.err))
  /\ Frame

ScanBool ==
  /\ InLoop
  /\ Looked
  /\ field.Value = "*bool"
  /\ stringValue' = form[field.Name][1]
  /\ LET s == form[field.Name][1]
     IN IF s = scanBoolTrueString
        THEN dest' = [dest EXCEPT ![i] = BoolV(TRUE)] /\ Continue
        ELSE IF s = scanBoolFalseString
        THEN dest' = [dest EXCEPT ![i] = BoolV(FALSE)] /\ Continue
        ELSE /\ UNCHANGED dest
             /\ Return(scanErrorIncompatibleValue(i - 1, field.Name, "bool"))
  /\ Frame

ScanString ==
  /\ InLoop
  /\ Looked
  /\ field.Value = "*string"
  /\ stringValue' = form[field.Name][1]
  /\ dest' = [dest EXCEPT ![i] = StringV(form[field.Name][1])]
  /\ Continue
  /\ Frame

(* variant: the type is examined before the form is looked up *)
ScanIncompatibleTypeBeforeLookup ==
  /\ InLoop
  /\ field.Value \notin SupportedTypes
  /\ stringValue' = <<>>
  /\ Return(scanErrorIncompatibleType(i - 1, field.Name))
  /\ UNCHANGED dest
  /\ Frame

ScanIncompatibleType ==
  /\ InLoop
  /\ Looked
  /\ field.Value \notin SupportedTypes
  /\ stringValue' = form[field.Name][1]
  /\ Return(scanErrorIncompatibleType(i - 1, field.Name))
  /\ UNCHANGED dest
  /\ Frame

ScanReturnNil ==
  /\ pc = "loop"
  /\ i > Len(fields)
  /\ Return(NilError)
  /\ UNCHANGED <<dest, stringValue>>
  /\ Frame

(***************************************************************************)
(* ScanError.Error                                                         *)
(***************************************************************************)
(* string(e.FieldNum): the character with that code point *)
RuneString(n) == <<"U+", n>>

Prefix(e) ==
  <<"Scan error in #", RuneString(e.FieldNum), "field with name '", e.FieldName, "': ">>

(* the message of a sub-error *)
SubErrorMessage(sub) ==
  CASE sub = "syntax" -> "strconv: invalid syntax"
    [] sub = "range" -> "strconv: value out of range"
    [] sub = "bool" -> "is not a valid bool value."

(* the branches of Error that return without a call *)
ErrorTail(e) ==
  CASE e.Type = ScanErrorTypeNoSuchField -> "no field with such name."
    [] e.Type = ScanErrorTypeMultipleValues -> "there is more than 1 field with such name."
    [] e.Type = ScanErrorTypeIncompatibleValue -> "unable to parse string to required type."
    [] e.Type = ScanErrorTypeIncompatibleType ->
         " type of this field is imcompatible with this function type."
    [] OTHER -> "unknown error"

(* the branch of Error that calls e.Error() *)
CallsItself(e) == e.Type = ScanErrorTypeIncompatibleValue /\ e.SubError # "nil"

ScanFrame == UNCHANGED <<intSize, form, fields, dest, i, stringValue, pc, err>>

ErrorCall ==
  /\ pc = "done"
  /\ ~err.IsNil
  /\ fmtPc = "idle"
  /\ fmtPc' = "running"
  /\ fmtDepth' = 1
  /\ UNCHANGED fmtText
  /\ ScanFrame

ErrorReturn ==
  /\ fmtPc = "running"
  /\ ~CallsItself(err)
  /\ fmtPc' = "returned"
  /\ fmtText' = <<Prefix(err), ErrorTail(err)>>
  /\ UNCHANGED fmtDepth
  /\ ScanFrame

ErrorRecurse ==
  /\ fmtPc = "running"
  /\ CallsItself(err)
  /\ fmtDepth < MaxStack
  /\ fmtDepth' = fmtDepth + 1
  /\ UNCHANGED <<fmtPc, fmtText>>
  /\ ScanFrame

(* the goroutine stack is exhausted: fatal error, no text is returned *)
ErrorStackOverflow ==
  /\ fmtPc = "running"
  /\ CallsItself(err)
  /\ fmtDepth >= MaxStack
  /\ fmtPc' = "overflow"
  /\ UNCHANGED <<fmtDepth, fmtText>>
  /\ ScanFrame

Next ==
  \/ ScanNoSuchField
  \/ ScanMultipleValues
  \/ ScanInteger
  \/ ScanBool
  \/ ScanString
  \/ ScanIncompatibleType
  \/ ScanReturnNil
  \/ ErrorCall
  \/ ErrorReturn
  \/ ErrorRecurse
  \/ ErrorStackOverflow

Spec == Init /\ [][Next]_vars

(***************************************************************************)
(* Properties                                                              *)
(***************************************************************************)
Done == pc = "done"
Failed == Done /\ ~err.IsNil

(* what request j asks for, taken alone *)
SingleValue(j) ==
  fields[j].Name \in DOMAIN form /\ Len(form[fields[j].Name]) = 1
ValueOf(j) == form[fields[j].Name][1]

ConversionFails(j) ==
  \/ fields[j].Value \notin SupportedTypes
  \/ /\ fields[j].Value \in IntegerTypes
     /\ ParseFor(fields[j].Value, ValueOf(j), intSize).err # "nil"
  \/ /\ fields[j].Value = "*bool"
     /\ ValueOf(j) \notin {<<"o", "n">>, <<"o", "f", "f">>}

RequestFails(j) == ~SingleValue(j) \/ ConversionFails(j)

ParsedValue(j) ==
  CASE fields[j].Value \in IntegerTypes ->
         LET r == ParseFor(fields[j].Value, ValueOf(j), intSize)
         IN IntV(r.neg, r.mag)
    [] fields[j].Value = "*bool" -> BoolV(ValueOf(j) = <<"o", "n">>)
    [] fields[j].Value = "*string" -> StringV(ValueOf(j))
    [] OTHER -> fields[j].Pre

FailingRequests == {j \in 1..Len(fields) : RequestFails(j)}
FirstFailing == CHOOSE k \in FailingRequests : \A j \in FailingRequests : k <= j

(* the request the last iteration worked on (0: none yet) *)
LastProcessed == IF err.IsNil THEN i - 1 ELSE i
Processed == LastProcessed >= 1
last == fields[LastProcessed]

(* integer ranges of the destination types *)
InRange(v, t) ==
  LET b == BitSize(t, intSize)
  IN IF t \in SignedTypes
     THEN IF v.neg THEN MagLe(v.mag, Shl1(b - 1)) ELSE MagLt(v.mag, Shl1(b - 1))
     ELSE ~v.neg /\ MagLt(v.mag, Shl1(b))

(* C1: when requests 0..k-1 succeed and request k fails, destinations      *)
(* 0..k-1 hold their parsed values and destinations k..end, the failing    *)
(* request's included, still hold their pre-call values.                   *)
C1_OrderPreservation ==
  (Done /\ FailingRequests # {}) =>
    \A j \in 1..Len(fields) :
      /\ j < FirstFailing => dest[j] = ParsedValue(j)
      /\ j >= FirstFailing => dest[j] = fields[j].Pre

(* C2: a request whose field has exactly one value and whose destination   *)
(* type is unsupported fails with kind IncompatibleType, its position, its *)
(* name and no sub-error.                                                  *)
C2_UnsupportedTypeKind ==
  (Done /\ FailingRequests # {}
     /\ SingleValue(FirstFailing)
     /\ fields[FirstFailing].Value \notin SupportedTypes) =>
    err = ScanError(FirstFailing - 1, fields[FirstFailing].Name,
                    ScanErrorTypeIncompatibleType, "nil")

C4_FirstFailure ==
  /\ pc = "loop" =>
       /\ err.IsNil
       /\ \A j \in 1..(i - 1) : ~RequestFails(j)
  /\ Done =>
       IF FailingRequests = {}
       THEN err = NilError /\ i = Len(fields) + 1
       ELSE /\ ~err.IsNil
            /\ err.FieldNum = FirstFailing - 1
            /\ err.FieldName = fields[FirstFailing].Name
            /\ i = FirstFailing
            /\ \A j \in (FirstFailing + 1)..Len(fields) : dest[j] = fields[j].Pre

C4_Witness ==
  /\ Failed
  /\ Len(fields) >= 2
  /\ FirstFailing = 1
  /\ RequestFails(2)
  /\ fields[1].Name # fields[2].Name
  /\ err.FieldNum = 0

(* C5: for a supported destination type and a field name that is a key of  *)
(* the form, zero values or two or more give MultipleValues for that       *)
(* request, and exactly one value passes the lookup with that string.      *)
C5_ExactlyOneValue ==
  (Processed /\ last.Value \in SupportedTypes /\ last.Name \in DOMAIN form) =>
    IF Len(form[last.Name]) = 1
    THEN /\ stringValue = form[last.Name][1]
         /\ ~err.IsNil =>
              err.Type \notin {ScanErrorTypeNoSuchField, ScanErrorTypeMultipleValues}
    ELSE /\ ~err.IsNil
         /\ err.Type = ScanErrorTypeMultipleValues
         /\ err.FieldNum = LastProcessed - 1
         /\ err.FieldName = last.Name

C5_Witness ==
  /\ Failed
  /\ last.Value \in SupportedTypes
  /\ last.Name \in DOMAIN form
  /\ Len(form[last.Name]) = 0
  /\ err.Type = ScanErrorTypeMultipleValues

(* C6: for a supported destination type and a field name that is no key of *)
(* the form the request fails with NoSuchField; with an empty form every   *)
(* non-empty request sequence fails with NoSuchField at position 0.        *)
C6_AbsentField ==
  /\ (Processed /\ last.Value \in SupportedTypes /\ last.Name \notin DOMAIN form) =>
       err = ScanError(LastProcessed - 1, last.Name, ScanErrorTypeNoSuchField, "nil")
  /\ (Done /\ DOMAIN form = {} /\ Len(fields) >= 1) =>
       err = ScanError(0, fields[1].Name, ScanErrorTypeNoSuchField, "nil")

C6_Witness ==
  /\ Failed
  /\ DOMAIN form = {}
  /\ Len(fields) >= 2
  /\ fields[1].Value \in SupportedTypes
  /\ err.Type = ScanErrorTypeNoSuchField

(* C7: a bool destination receives true iff the single value is exactly    *)
(* "on" and false iff it is exactly "off"; any other string fails with     *)
(* IncompatibleValue and a sub-error and leaves the destination unchanged. *)
C7_BoolExactness ==
  (Processed /\ last.Value = "*bool" /\ SingleValue(LastProcessed)) =>
    LET s == ValueOf(LastProcessed)
    IN CASE s = <<"o", "n">> -> err.IsNil /\ dest[LastProcessed] = BoolV(TRUE)
         [] s = <<"o", "f", "f">> -> err.IsNil /\ dest[LastProcessed] = BoolV(FALSE)
         [] OTHER ->
              /\ ~err.IsNil
              /\ err.Type = ScanErrorTypeIncompatibleValue
              /\ err.SubError # "nil"
              /\ err.FieldNum = LastProcessed - 1
              /\ dest[LastProcessed] = last.Pre

C7_Witness ==
  /\ Processed
  /\ last.Value = "*bool"
  /\ last.Pre = BoolV(FALSE)
  /\ SingleValue(LastProcessed)
  /\ ValueOf(LastProcessed) = <<"o", "n">>
  /\ dest[LastProcessed] = BoolV(TRUE)

(* C8: a well-formed base-10 literal outside the range of the integer      *)
(* destination's width fails with IncompatibleValue and a sub-error; it is *)
(* never a success.                                                        *)
C8_IntegerOverflow ==
  (Processed /\ last.Value \in IntegerTypes /\ SingleValue(LastProcessed)) =>
    \A v \in SampleInts :
      (ValueOf(LastProcessed) = FormatInt(v.neg, v.mag) /\ ~InRange(v, last.Value)) =>
        /\ ~err.IsNil
        /\ err.Type = ScanErrorTypeIncompatibleValue
        /\ err.SubError # "nil"
        /\ err.FieldNum = LastProcessed - 1

C8_Witness ==
  /\ Failed
  /\ last.Value = "*uint64"
  /\ SingleValue(LastProcessed)
  /\ ValueOf(LastProcessed) = FormatInt(FALSE, Shl1(64))
  /\ err.SubError = "range"

(* C9: for every integer width and every v in its range, scanning the      *)
(* base-10 string of v succeeds and leaves exactly v in the destination.   *)
C9_IntegerRoundTrip ==
  (Processed /\ last.Value \in IntegerTypes /\ SingleValue(LastProcessed)) =>
    \A v \in SampleInts :
      (ValueOf(LastProcessed) = FormatInt(v.neg, v.mag) /\ InRange(v, last.Value)) =>
        /\ err.IsNil
        /\ dest[LastProcessed] = IntV(v.neg, v.mag)

C9_Witness ==
  /\ Processed
  /\ last.Value = "*int64"
  /\ SingleValue(LastProcessed)
  /\ ValueOf(LastProcessed) = FormatInt(TRUE, Shl1(63))
  /\ dest[LastProcessed] = IntV(TRUE, Shl1(63))
  /\ err.IsNil

(* C10: Error() returns without invoking itself, and for IncompatibleValue *)
(* with a sub-error the text is the prefix followed by the sub-error's     *)
(* message.                                                                *)
C10_ErrorTerminates ==
  /\ fmtDepth <= 1
  /\ fmtPc # "overflow"
  /\ (fmtPc = "returned" /\ CallsItself(err)) =>
       fmtText = <<Prefix(err), SubErrorMessage(err.SubError)>>

====
